---- MODULE Spec2Model ----
(***************************************************************************)
(* Model of the video-translation polling client (client.js: class         *)
(* VideoTranslationClient with defaultPollingStrategy) and of the          *)
(* simulated backend (server.js: GET /status).                             *)
(*                                                                         *)
(* Times are integers in milliseconds.  JavaScript runs one callback at a  *)
(* time, so an action is the code that runs between two awaits: from the   *)
(* call of waitForCompletion (or from the wake-up after a sleep) up to the *)
(* next `await this.getStatus()`, and from the settlement of that request  *)
(* up to the next `await this._sleep(...)`.                                *)
(***************************************************************************)
EXTENDS Integers, FiniteSets, Sequences, TLC

\* ---------------------------------------------------------------- bounds
\* Number of waitForCompletion invocations made on the one client instance.
MaxInvocations == 2
\* Largest maxAttempts option the client is constructed with.
MaxAttemptsOption == 3
\* Round-trip time of one HTTP request, in ms.
Tick == 500
\* Time the caller lets pass between construction / invocations, in ms.
Pause == 2000
\* The clock saturates here; every configured time budget is over by then.
MaxNow == 8000
\* The observation counters stop counting here (never reached, see Exact).
MaxCount == 9
\* Delays are stored up to this value (never reached, see Exact).
MaxDelay == 16000

Invocations == 1..MaxInvocations

\* `undefined` for an absent remainingSeconds (typeof x !== 'number').
Undefined == -1

\* ------------------------------------------------- inputs of the model
InitialDelays == {0, 1000}
Durations == {500, 3000}
Strategies == {"default", "plusSecond", "negative"}
Latencies == {Tick}

\* Bodies a successful GET /status can carry: {result, remainingSeconds}.
Responses ==
    {[result |-> "pending", remainingSeconds |-> r] : r \in {Undefined, 4, 5}}
    \cup {[result |-> "completed", remainingSeconds |-> 0],
          [result |-> "error", remainingSeconds |-> Undefined],
          [result |-> "unknown", remainingSeconds |-> Undefined]}

Outcomes == {"completed", "Timeout", "RemoteError",
             "ExhaustedWithTransportErrors", "ExhaustedPending"}

VARIABLES
    \* constructor options (this.*)
    maxAttempts, initialDelay, maxDurationMs, pollingStrategy,
    \* instance state (this.*)
    attempt, currentDelay, startTime,
    \* Date.now()
    now,
    \* per invocation of waitForCompletion: control point and locals
    pc, outcome, elapsedMs, remainingSeconds, sleepMs,
    \* per invocation: observations of what the invocation did
    calls, iters, lastResult, seen, sleeps, sleepsSince, stratSince,
    lastHint, begun, answered, settledAt

config == <<maxAttempts, initialDelay, maxDurationMs, pollingStrategy>>
instance == <<attempt, currentDelay, startTime>>
locals == <<pc, outcome, elapsedMs, remainingSeconds, sleepMs>>
observed == <<calls, iters, lastResult, seen, sleeps, sleepsSince, stratSince,
              lastHint, begun, answered, settledAt>>
vars == <<config, instance, now, locals, observed>>

\* ------------------------------------------------------ pure functions

\* Variant: the threshold test written with <=.
defaultPollingStrategyInclusive(att, previousDelay, serverHint) ==
    IF serverHint # Undefined /\ serverHint <= 5
    THEN 1000
    ELSE previousDelay * 2

\* client.js defaultPollingStrategy(attempt, previousDelay, serverHint);
\* serverHint is given by its remainingSeconds field (Undefined when {}).
defaultPollingStrategy(att, previousDelay, serverHint) ==
    IF serverHint # Undefined /\ serverHint < 5
    THEN 1000
    ELSE previousDelay * 2

\* exampleUsage.js: pollingStrategy: (attempt, previousDelay) => previousDelay + 1000
plusSecondStrategy(att, previousDelay, serverHint) == previousDelay + 1000

\* A caller-supplied strategy that returns a negative delay.
negativeStrategy(att, previousDelay, serverHint) == 0 - 1000

\* this.pollingStrategy(attempt, currentDelay, hint)
ApplyStrategy(s, att, previousDelay, serverHint) ==
    CASE s = "default" -> defaultPollingStrategy(att, previousDelay, serverHint)
      [] s = "plusSecond" -> plusSecondStrategy(att, previousDelay, serverHint)
      [] s = "negative" -> negativeStrategy(att, previousDelay, serverHint)

\* Variant: setTimeout(resolve) without the delay argument.
SleepImmediate(ms) == 1

\* Variant: the delay handed to setTimeout in seconds.
SleepSeconds(ms) == IF ms < 1000 THEN 1 ELSE ms \div 1000

\* _sleep(ms): setTimeout fires after ms, and after 1 ms when ms < 1.
SleepTime(ms) == IF ms < 1 THEN 1 ELSE ms

\* The clock after d more milliseconds.
Advance(t, d) == IF t + d > MaxNow THEN MaxNow ELSE t + d

\* One more event observed.
Count(n) == IF n >= MaxCount THEN n ELSE n + 1

\* A delay as the model stores it.
Stored(d) == IF d > MaxDelay THEN MaxDelay ELSE d

\* Variant: the loop written as while (true).
LoopCondAlways(att, max) == TRUE

\* Variant: the loop condition written with <=.
LoopCondInclusive(att, max) == att <= max

\* while (this.attempt < this.maxAttempts)
LoopCond(att, max) == att < max

\* Variant: the time check left out.
TimedOutNever(elapsed, max) == FALSE

\* Variant: the elapsed time taken in seconds, the budget in milliseconds.
TimedOutSeconds(elapsed, max) == elapsed \div 1000 > max

\* if (elapsedMs > this.maxDurationMs)
TimedOut(elapsed, max) == elapsed > max

\* Variant: the counter stepped twice per answered request.
NextAttemptTwice(att) == att + 2

\* this.attempt += 1
NextAttempt(att) == att + 1

\* Variant: the 'error' branch missing, so 'error' falls into the else branch.
DispatchErrorAsPending(result) ==
    IF result = "completed" THEN "return" ELSE "sleep"

\* Variant: the branches keyed on 'pending', anything else but 'error' returns.
DispatchElseCompleted(result) ==
    IF result = "pending" THEN "sleep"
    ELSE IF result = "error" THEN "throw"
    ELSE "return"

\* if (result === 'completed') ... else if (result === 'error') ... else ...
Dispatch(result) ==
    IF result = "completed" THEN "return"
    ELSE IF result = "error" THEN "throw"
    ELSE "sleep"

\* catch branch: if (this.attempt >= this.maxAttempts)
Exhausted(att, max) == att >= max

\* Variant: remainingSeconds kept in a variable that outlives the iteration
\* and handed to the strategy in the catch branch too.
HintStale(sleeping, rs) == rs

\* Third argument of this.pollingStrategy: {} after the sleep of line 86,
\* { remainingSeconds } of this iteration's response after that of line 106.
Hint(sleeping, rs) == IF sleeping = "sleep86" THEN Undefined ELSE rs

\* Variant: the time check made before the loop condition.
LoopExitTimeFirst(att, max, elapsed, maxDuration) ==
    IF TimedOut(elapsed, maxDuration) THEN "timeout"
    ELSE IF ~LoopCond(att, max) THEN "exhausted"
    ELSE "request"

\* Lines 66-71 and 113-114: the loop condition comes first, then the time check.
LoopExit(att, max, elapsed, maxDuration) ==
    IF ~LoopCond(att, max) THEN "exhausted"
    ELSE IF TimedOut(elapsed, maxDuration) THEN "timeout"
    ELSE "request"

\* --------------------------------------------------------------- Init
TypeOK ==
    /\ maxAttempts \in Nat \ {0}
    /\ attempt \in Nat
    /\ currentDelay \in Int
    /\ now \in 0..MaxNow
    /\ pc \in [Invocations -> {"idle", "getStatus", "sleep86", "sleep106", "done"}]
    /\ outcome \in [Invocations -> Outcomes \cup {"none"}]

NoInvocationYet ==
    /\ pc = [i \in Invocations |-> "idle"]
    /\ outcome = [i \in Invocations |-> "none"]
    /\ elapsedMs = [i \in Invocations |-> 0]
    /\ remainingSeconds = [i \in Invocations |-> Undefined]
    /\ sleepMs = [i \in Invocations |-> 0]
    /\ calls = [i \in Invocations |-> 0]
    /\ iters = [i \in Invocations |-> 0]
    /\ lastResult = [i \in Invocations |-> "none"]
    /\ seen = [i \in Invocations |-> {}]
    /\ sleeps = [i \in Invocations |-> 0]
    /\ sleepsSince = [i \in Invocations |-> 0]
    /\ stratSince = [i \in Invocations |-> 0]
    /\ lastHint = [i \in Invocations |-> Undefined]
    /\ begun = [i \in Invocations |-> [attempt |-> 0, currentDelay |-> 0, at |-> 0]]
    /\ answered = [i \in Invocations |-> 0]
    /\ settledAt = [i \in Invocations |-> 0]

\* new VideoTranslationClient(baseUrl, options) at time 0.
Init ==
    /\ maxAttempts \in 1..MaxAttemptsOption
    /\ initialDelay \in InitialDelays
    /\ maxDurationMs \in Durations
    /\ pollingStrategy \in Strategies
    /\ now = 0
    /\ attempt = 0
    /\ currentDelay = initialDelay
    /\ startTime = now
    /\ NoInvocationYet

\* ------------------------------------------------------------ actions

Running(i) == pc[i] \notin {"idle", "done"}

\* Lines 66-76 run at time t with this.attempt = att: the loop condition,
\* the time check, and the issue of the request (or lines 113-114).
LoopTop(i, t, att) ==
    LET e == t - startTime IN
    IF LoopExit(att, maxAttempts, e, maxDurationMs) = "exhausted" THEN
        /\ pc' = [pc EXCEPT ![i] = "done"]
        /\ outcome' = [outcome EXCEPT ![i] = "ExhaustedPending"]
        /\ UNCHANGED <<elapsedMs, calls, iters>>
    ELSE IF LoopExit(att, maxAttempts, e, maxDurationMs) = "timeout" THEN
        /\ pc' = [pc EXCEPT ![i] = "done"]
        /\ outcome' = [outcome EXCEPT ![i] = "Timeout"]
        /\ elapsedMs' = [elapsedMs EXCEPT ![i] = e]
        /\ iters' = [iters EXCEPT ![i] = Count(@)]
        /\ UNCHANGED calls
    ELSE
        /\ pc' = [pc EXCEPT ![i] = "getStatus"]
        /\ elapsedMs' = [elapsedMs EXCEPT ![i] = e]
        /\ iters' = [iters EXCEPT ![i] = Count(@)]
        /\ calls' = [calls EXCEPT ![i] = Count(@)]
        /\ UNCHANGED outcome

\* client.waitForCompletion() is called (invocation i begins).
Begin(i) ==
    /\ pc[i] = "idle"
    /\ \A j \in Invocations : j < i => pc[j] # "idle"
    /\ begun' = [begun EXCEPT ![i] =
                    [attempt |-> attempt, currentDelay |-> currentDelay, at |-> now]]
    /\ LoopTop(i, now, attempt)
    /\ UNCHANGED <<config, instance, now, remainingSeconds, sleepMs, lastResult,
                   seen, sleeps, sleepsSince, stratSince, lastHint, answered,
                   settledAt>>

\* A call made while no other invocation on the instance is in progress.
Start(i) ==
    /\ \A j \in Invocations : ~Running(j)
    /\ Begin(i)

\* Lines 76-77 and 94-110: getStatus resolves with body resp after lat ms.
Settle(i, resp, lat) ==
    /\ pc[i] = "getStatus"
    /\ now' = Advance(now, lat)
    /\ attempt' = NextAttempt(attempt)
    /\ lastResult' = [lastResult EXCEPT ![i] = resp.result]
    /\ seen' = [seen EXCEPT ![i] = @ \cup {resp.result}]
    /\ sleepsSince' = [sleepsSince EXCEPT ![i] = 0]
    /\ stratSince' = [stratSince EXCEPT ![i] = 0]
    /\ remainingSeconds' = [remainingSeconds EXCEPT ![i] = resp.remainingSeconds]
    /\ answered' = [answered EXCEPT ![i] = Count(@)]
    /\ settledAt' = [settledAt EXCEPT ![i] = now']
    /\ CASE Dispatch(resp.result) = "return" ->
                /\ pc' = [pc EXCEPT ![i] = "done"]
                /\ outcome' = [outcome EXCEPT ![i] = "completed"]
                /\ UNCHANGED sleepMs
         [] Dispatch(resp.result) = "throw" ->
                /\ pc' = [pc EXCEPT ![i] = "done"]
                /\ outcome' = [outcome EXCEPT ![i] = "RemoteError"]
                /\ UNCHANGED sleepMs
         [] Dispatch(resp.result) = "sleep" ->
                /\ pc' = [pc EXCEPT ![i] = "sleep106"]
                /\ sleepMs' = [sleepMs EXCEPT ![i] = currentDelay]
                /\ UNCHANGED outcome
    /\ UNCHANGED <<config, currentDelay, startTime, elapsedMs, calls, iters,
                   sleeps, lastHint, begun>>

\* The transport answers with any body.
Respond(i) ==
    \E resp \in Responses, lat \in Latencies : Settle(i, resp, lat)

\* Lines 78-86: getStatus rejects (network or parse failure) after lat ms.
Fail(i) ==
    \E lat \in Latencies :
        /\ pc[i] = "getStatus"
        /\ now' = Advance(now, lat)
        /\ lastResult' = [lastResult EXCEPT ![i] = "fail"]
        /\ seen' = [seen EXCEPT ![i] = @ \cup {"fail"}]
        /\ answered' = [answered EXCEPT ![i] = Count(@)]
        /\ settledAt' = [settledAt EXCEPT ![i] = now']
        /\ sleepsSince' = [sleepsSince EXCEPT ![i] = 0]
        /\ stratSince' = [stratSince EXCEPT ![i] = 0]
        /\ IF Exhausted(attempt, maxAttempts) THEN
                /\ pc' = [pc EXCEPT ![i] = "done"]
                /\ outcome' = [outcome EXCEPT ![i] = "ExhaustedWithTransportErrors"]
                /\ UNCHANGED sleepMs
           ELSE
                /\ pc' = [pc EXCEPT ![i] = "sleep86"]
                /\ sleepMs' = [sleepMs EXCEPT ![i] = currentDelay]
                /\ UNCHANGED outcome
        /\ UNCHANGED <<config, instance, elapsedMs, remainingSeconds, calls, iters,
                       sleeps, lastHint, begun>>

\* Lines 86-90 or 106-110, then the next loop top: the sleep ends, the
\* strategy sets the next delay, and the loop goes round.
Wake(i) ==
    /\ pc[i] \in {"sleep86", "sleep106"}
    /\ LET hint == Hint(pc[i], remainingSeconds[i])
           t == Advance(now, SleepTime(sleepMs[i]))
       IN /\ now' = t
          /\ currentDelay' =
                Stored(ApplyStrategy(pollingStrategy, attempt, currentDelay, hint))
          /\ lastHint' = [lastHint EXCEPT ![i] = hint]
          /\ LoopTop(i, t, attempt)
    /\ sleeps' = [sleeps EXCEPT ![i] = Count(@)]
    /\ sleepsSince' = [sleepsSince EXCEPT ![i] = @ + 1]
    /\ stratSince' = [stratSince EXCEPT ![i] = @ + 1]
    /\ UNCHANGED <<config, attempt, startTime, remainingSeconds, sleepMs,
                   lastResult, seen, begun, answered, settledAt>>

\* The caller lets time pass before (the next) waitForCompletion.
Elapse ==
    /\ \A j \in Invocations : ~Running(j)
    /\ \E j \in Invocations : pc[j] = "idle"
    /\ now - startTime <= maxDurationMs
    /\ now' = Advance(now, Pause)
    /\ UNCHANGED <<config, instance, locals, observed>>

Next ==
    \/ \E i \in Invocations : Start(i)
    \/ \E i \in Invocations : Respond(i)
    \/ \E i \in Invocations : Fail(i)
    \/ \E i \in Invocations : Wake(i)
    \/ Elapse

Spec == Init /\ [][Next]_vars

\* Each transport call and each sleep completes.
Fairness ==
    \A i \in Invocations : WF_vars(Respond(i) \/ Fail(i)) /\ WF_vars(Wake(i))

LiveSpec == Spec /\ Fairness

\* The caps of the model are never reached: counters and delays are exact,
\* and a saturated clock is past every time budget.
Exact ==
    /\ \A i \in Invocations :
          calls[i] < MaxCount /\ iters[i] < MaxCount /\ sleeps[i] < MaxCount
    /\ currentDelay < MaxDelay
    /\ attempt < MaxCount
    /\ now = MaxNow => now - startTime > maxDurationMs

\* ------------------------------------------- the simulated backend
\* server.js: startTime = new Date() at process start.
serverStartTime == 0

\* DELAY_SECONDS of the integration test's environment.
DELAY_SECONDS == 3

\* Moments, after server start, at which the client is constructed and used.
ClientStarts == {k * Tick : k \in 0..7}

\* Math.ceil(ms / 1000) for ms > 0.
CeilSeconds(ms) == (ms + 999) \div 1000

\* app.get('/status') handled at time t; roll is Math.random() < ERROR_PROBABILITY.
ServerStatus(t, roll) ==
    LET diffMs == t - serverStartTime
        remainingMs == DELAY_SECONDS * 1000 - diffMs
    IN IF roll THEN [result |-> "error", remainingSeconds |-> Undefined]
       ELSE IF remainingMs <= 0
            THEN [result |-> "completed", remainingSeconds |-> 0]
            ELSE [result |-> "pending", remainingSeconds |-> CeilSeconds(remainingMs)]

\* getStatus against the backend: the handler runs when the request is sent
\* or when the answer arrives, lat ms later.
BackendRespond(i) ==
    \E lat \in {0, Tick}, roll \in BOOLEAN :
        \E h \in {now, now + lat} : Settle(i, ServerStatus(h, roll), lat)

\* test/integration.test.js and the README: maxAttempts 5, initialDelay 1000,
\* the default strategy; maxDurationMs 15000 (test) or the default 30000.
InitA ==
    /\ maxAttempts = 5
    /\ initialDelay = 1000
    /\ maxDurationMs \in {15000, 30000}
    /\ pollingStrategy = "default"
    /\ now \in ClientStarts
    /\ attempt = 0
    /\ currentDelay = initialDelay
    /\ startTime = now
    /\ NoInvocationYet

NextA ==
    \/ \E i \in Invocations : Start(i)
    \/ \E i \in Invocations : BackendRespond(i)
    \/ \E i \in Invocations : Wake(i)

FairnessA ==
    \A i \in Invocations : WF_vars(BackendRespond(i)) /\ WF_vars(Wake(i))

SpecA == InitA /\ [][NextA]_vars /\ FairnessA

\* The clock never saturates in the end-to-end scenario.
ClockExactA == now < MaxNow

\* ------------------------------------------------------------ claims

\* C1: during one waitForCompletion on a freshly constructed client the
\* number of transport calls never exceeds maxAttempts.
C1_CallsWithinBudget == calls[1] <= maxAttempts

\* C2: when every transport call of the first invocation has failed and
\* maxAttempts calls have been answered, the invocation has failed with
\* ExhaustedWithTransportErrors after exactly maxAttempts calls.
C2_AllFailExhausts ==
    (seen[1] = {"fail"} /\ calls[1] >= maxAttempts /\ pc[1] # "getStatus")
        => /\ pc[1] = "done"
           /\ outcome[1] = "ExhaustedWithTransportErrors"
           /\ calls[1] = maxAttempts

\* Every iteration but the last holds a request of at least Tick ms, and an
\* iteration begins only when the one before it was within the time budget.
IterationsBounded ==
    \A i \in Invocations :
        iters[i] >= 2 => (iters[i] - 2) * Tick <= maxDurationMs

\* C3: every invocation that has begun eventually terminates, with
\* 'completed' or one of the four failure kinds; it never polls forever: the
\* number of its loop iterations is bounded by the time budget.
C3_Terminates ==
    /\ []IterationsBounded
    /\ \A i \in Invocations :
          (pc[i] # "idle") ~> (pc[i] = "done" /\ outcome[i] \in Outcomes)

\* C3 witness: an invocation ended by the time budget after more transport
\* calls than maxAttempts, all of them failed.
C3_Witness ==
    /\ pc[1] = "done" /\ outcome[1] = "Timeout"
    /\ seen[1] = {"fail"} /\ calls[1] > maxAttempts

\* C4: an invocation fails with RemoteError exactly when a transport call
\* returned 'error', and then at once: it is over, with no sleep and no
\* strategy call after that transport call.
C4_RemoteErrorImmediate ==
    \A i \in Invocations :
        /\ (outcome[i] = "RemoteError") <=> (lastResult[i] = "error")
        /\ lastResult[i] = "error"
              => pc[i] = "done" /\ sleepsSince[i] = 0 /\ stratSince[i] = 0

\* C4 witness: RemoteError on a later call while attempts remain.
C4_Witness ==
    /\ outcome[1] = "RemoteError" /\ calls[1] >= 2 /\ sleeps[1] >= 1
    /\ attempt < maxAttempts

\* C5: a successful invocation returned 'completed', its last transport call
\* returned 'completed', and no sleep or strategy call followed that call.
C5_CompletedImmediate ==
    \A i \in Invocations :
        outcome[i] = "completed"
            => /\ pc[i] = "done"
               /\ lastResult[i] = "completed"
               /\ sleepsSince[i] = 0 /\ stratSince[i] = 0

\* C5 witness: success on a later call, after earlier sleeps.
C5_Witness ==
    outcome[1] = "completed" /\ calls[1] >= 2 /\ sleeps[1] >= 1

\* C6: the time budget is checked at the top of every iteration before the
\* request: an iteration that begins with elapsed > maxDurationMs ends the
\* invocation with Timeout without a transport call, and a request in flight
\* was issued when elapsed <= maxDurationMs.
C6_TimeoutBeforeRequest ==
    \A i \in Invocations :
        /\ iters[i] >= 1 =>
              IF elapsedMs[i] > maxDurationMs
              THEN /\ pc[i] = "done" /\ outcome[i] = "Timeout"
                   /\ calls[i] = iters[i] - 1
              ELSE calls[i] = iters[i]
        /\ outcome[i] = "Timeout" => elapsedMs[i] > maxDurationMs
        /\ pc[i] = "getStatus"
              => elapsedMs[i] = now - startTime /\ elapsedMs[i] <= maxDurationMs

\* C6 witness: a Timeout found at the top of a later iteration.
C6_Witness ==
    /\ outcome[1] = "Timeout" /\ iters[1] >= 2 /\ calls[1] = iters[1] - 1

\* C7: when every transport call of the first invocation returns 'pending'
\* and the invocation does not time out, it fails with ExhaustedPending
\* after exactly maxAttempts transport calls.
C7_AllPendingExhausts ==
    seen[1] \subseteq {"pending"}
        => /\ calls[1] <= maxAttempts
           /\ (pc[1] = "done" /\ outcome[1] # "Timeout")
                 => outcome[1] = "ExhaustedPending" /\ calls[1] = maxAttempts

\* C7 witness: three pending answers with maxAttempts = 3.
C7_Witness ==
    /\ pc[1] = "done" /\ outcome[1] = "ExhaustedPending"
    /\ seen[1] = {"pending"} /\ maxAttempts = 3 /\ calls[1] = 3

\* C7 witness of the case maxAttempts = 1.
C7_WitnessOne ==
    /\ pc[1] = "done" /\ outcome[1] = "ExhaustedPending"
    /\ seen[1] = {"pending"} /\ maxAttempts = 1 /\ calls[1] = 1

\* C8: against the backend with DELAY_SECONDS = 3, a client with
\* maxAttempts = 5, initialDelay = 1000 and the default strategy, started at
\* or after server start, eventually returns 'completed' within 5 transport
\* calls, unless the backend answered 'error'.
C8_ScenarioA ==
    (pc[1] # "idle")
        ~> /\ pc[1] = "done"
           /\ \/ "error" \in seen[1]
              \/ outcome[1] = "completed" /\ calls[1] <= 5 /\ attempt <= 5

\* C8 witness: success on the fourth call, all earlier answers pending.
C8_Witness ==
    /\ pc[1] = "done" /\ outcome[1] = "completed"
    /\ calls[1] = 4 /\ seen[1] = {"pending", "completed"}

\* C9: every invocation, a second sequential one included, starts with
\* attempt = 0 and currentDelay = initialDelay.
C9_FreshPerInvocation ==
    \A i \in Invocations :
        pc[i] # "idle"
            => begun[i].attempt = 0 /\ begun[i].currentDelay = initialDelay

\* C10: elapsed time is measured from the start of the invocation: an
\* invocation begun more than maxDurationMs after construction, with attempts
\* left, issues its first transport call and does not time out on its first
\* iteration.
C10_ElapsedFromInvocation ==
    \A i \in Invocations :
        (pc[i] # "idle" /\ begun[i].at - startTime > maxDurationMs
            /\ begun[i].attempt < maxAttempts)
            => calls[i] >= 1 /\ ~(outcome[i] = "Timeout" /\ iters[i] = 1)

\* C11: through non-overlapping invocations the attempt counter stays within
\* 0..maxAttempts, in particular when an invocation has terminated.
C11_AttemptWithinBudget ==
    /\ 0 <= attempt /\ attempt <= maxAttempts
    /\ \A i \in Invocations : pc[i] = "done" => attempt <= maxAttempts

\* C11 witness: both invocations are over, the second made requests too, and
\* the counter stands at maxAttempts.
C11_Witness ==
    /\ pc[1] = "done" /\ pc[2] = "done"
    /\ answered[1] >= 1 /\ answered[2] >= 1
    /\ attempt = maxAttempts

\* C12: with the default strategy, the delay set after a sleep is 1000 when
\* the hint carries a number below 5, whatever the attempt and the previous
\* delay, and twice the previous delay in every other case.
C12_DefaultStrategy ==
    [][\A i \in Invocations :
          (pollingStrategy = "default" /\ pc[i] \in {"sleep86", "sleep106"}
              /\ pc'[i] # pc[i])
              => currentDelay' =
                    IF lastHint'[i] # Undefined /\ lastHint'[i] < 5
                    THEN 1000
                    ELSE 2 * currentDelay]_vars

\* C12 witness: a hint of 4 brought a delay of 2000 back to 1000, after a
\* hint of 5 had doubled it on an earlier attempt.
C12_Witness ==
    /\ pollingStrategy = "default" /\ stratSince[1] = 1
    /\ lastHint[1] = 4 /\ sleepMs[1] = 2000 /\ currentDelay = 1000
    /\ attempt >= 2

\* C12 witness of the example: previousDelay 1000 and no hint give 2000.
C12_WitnessNoHint ==
    /\ pollingStrategy = "default" /\ stratSince[1] = 1
    /\ lastHint[1] = Undefined /\ sleepMs[1] = 1000 /\ currentDelay = 2000

\* C13: currentDelay is non-negative in every reachable state, whatever the
\* strategy returns.
C13_DelayNonNegative == currentDelay >= 0

\* C14: a response whose result is none of 'pending', 'completed', 'error' is
\* handled as a transport failure: it is followed by the sleep of the catch
\* branch, not by that of the pending branch, and an invocation that ends by
\* exhaustion right after it does not report ExhaustedPending.
C14_UnknownIsFailure ==
    \A i \in Invocations :
        lastResult[i] = "unknown"
            => pc[i] # "sleep106" /\ outcome[i] # "ExhaustedPending"

\* -------------------------------- a backend that always answers 'pending'
\* getStatus resolves with a 'pending' body after 0, 100 or Tick ms.
PendingRespond(i) ==
    \E r \in {Undefined, 4, 5}, lat \in {0, 100, Tick} :
        Settle(i, [result |-> "pending", remainingSeconds |-> r], lat)

\* new VideoTranslationClient(url, {maxDurationMs: 500, initialDelay: 1000, ...})
InitC ==
    /\ maxAttempts \in 2..(MaxAttemptsOption + 1)
    /\ initialDelay = 1000
    /\ maxDurationMs = 500
    /\ pollingStrategy \in Strategies
    /\ now \in {0, Tick}
    /\ attempt = 0
    /\ currentDelay = initialDelay
    /\ startTime = now
    /\ NoInvocationYet

NextC ==
    \/ \E i \in Invocations : Start(i)
    \/ \E i \in Invocations : PendingRespond(i)
    \/ \E i \in Invocations : Wake(i)

SpecC == InitC /\ [][NextC]_vars

\* C15: with maxDurationMs = 500, initialDelay = 1000, maxAttempts >= 2 and
\* only 'pending' answers, the first invocation issues at most one transport
\* call and fails with Timeout at the top of its second iteration at the
\* latest.
C15_ScenarioC ==
    (maxDurationMs = 500 /\ initialDelay = 1000 /\ maxAttempts >= 2
        /\ seen[1] \subseteq {"pending"})
        => /\ calls[1] <= 1 /\ iters[1] <= 2
           /\ pc[1] = "done" => outcome[1] = "Timeout"
           /\ pc[1] \in {"idle", "getStatus", "sleep106", "done"}

\* C15 witness: Timeout at the top of the second iteration, one call made,
\* answered at once.
C15_Witness ==
    /\ pc[1] = "done" /\ outcome[1] = "Timeout"
    /\ iters[1] = 2 /\ calls[1] = 1 /\ seen[1] = {"pending"}
    /\ settledAt[1] = begun[1].at /\ elapsedMs[1] = 1000

\* ------------------------------------------- overlapping invocations
\* waitForCompletion may be called while an earlier call on the same
\* instance is suspended in an await.
NextO ==
    \/ \E i \in Invocations : Begin(i)
    \/ \E i \in Invocations : Respond(i)
    \/ \E i \in Invocations : Fail(i)
    \/ \E i \in Invocations : Wake(i)

\* A client with one or two attempts and a delay of one second.
InitO ==
    /\ maxAttempts \in 1..2
    /\ initialDelay = 1000
    /\ maxDurationMs \in Durations
    /\ pollingStrategy \in Strategies
    /\ now = 0
    /\ attempt = 0
    /\ currentDelay = initialDelay
    /\ startTime = now
    /\ NoInvocationYet

SpecO == InitO /\ [][NextO]_vars

\* C16: attempt and delay are owned by one invocation: while an invocation
\* sleeps, the delay it will hand to the strategy is still the one it sleeps
\* for, the counter it reads is moved by its own answered requests only, and
\* attempt never exceeds maxAttempts, also when invocations overlap.
C16_StateNotShared ==
    /\ attempt <= maxAttempts
    /\ \A i \in Invocations :
          pc[i] \in {"sleep86", "sleep106"} => currentDelay = sleepMs[i]
    /\ \A i \in Invocations :
          pc[i] = "getStatus" /\ answered[i] = 0 => attempt = begun[i].attempt

\* C17: within one invocation at most one transport request is in flight, and
\* between two consecutive transport calls lie exactly one sleep and one
\* strategy call, the sleep having lasted its delay before the next call.
C17_Sequential ==
    \A i \in Invocations :
        /\ calls[i] - answered[i] = IF pc[i] = "getStatus" THEN 1 ELSE 0
        /\ pc[i] = "getStatus" => sleeps[i] = calls[i] - 1
        /\ (pc[i] = "getStatus" /\ calls[i] >= 2)
              => /\ sleepsSince[i] = 1 /\ stratSince[i] = 1
                 /\ now >= settledAt[i] + sleepMs[i]

\* C17 witness: the third request is in flight after two sleeps, the latest
\* of one second.
C17_Witness ==
    /\ pc[1] = "getStatus" /\ calls[1] = 3 /\ sleeps[1] = 2
    /\ sleepMs[1] = 1000 /\ now = settledAt[1] + 1000

\* C18: the hint handed to the strategy comes from the transport call of the
\* same iteration: empty after a failed call, the response's remainingSeconds
\* (or none when the response had none) after an answered one; a value of an
\* earlier iteration is never reused.
C18_HintOfSameIteration ==
    \A i \in Invocations :
        stratSince[i] = 1
            => lastHint[i] = IF lastResult[i] = "fail"
                             THEN Undefined
                             ELSE remainingSeconds[i]

\* C18 witness: an empty hint after a failed call that followed a response
\* with remainingSeconds = 4.
C18_Witness ==
    /\ stratSince[1] = 1 /\ lastResult[1] = "fail"
    /\ remainingSeconds[1] = 4 /\ lastHint[1] = Undefined
    /\ seen[1] = {"pending", "fail"}

\* C18 witness: the number of the response after a 'pending' answer.
C18_WitnessPending ==
    /\ stratSince[1] = 1 /\ lastResult[1] = "pending"
    /\ remainingSeconds[1] = 5 /\ lastHint[1] = 5 /\ answered[1] >= 2

RECURSIVE Pow2(_)
\* 2^k for k >= 0.
Pow2(k) == IF k <= 0 THEN 1 ELSE 2 * Pow2(k - 1)

\* The k-th sleep of an all-failures run under the default strategy lasts
\* initialDelay * 2^(k-1), the delay being replaced only after the sleep.
SleepSchedule ==
    (pollingStrategy = "default" /\ seen[1] = {"fail"} /\ pc[1] = "sleep86")
        => /\ sleepMs[1] = initialDelay * Pow2(answered[1] - 1)
           /\ currentDelay = sleepMs[1]

\* C19: each sleep lasts the delay held before the strategy call that follows
\* it; with the default strategy and only transport failures the k-th sleep
\* of the first invocation lasts initialDelay * 2^(k-1), and the failed
\* attempt that uses up the budget (the maxAttempts-th) is followed by no
\* sleep.
C19_SleepsBetweenFailures ==
    /\ SleepSchedule
    /\ (seen[1] = {"fail"} /\ pc[1] = "sleep86") => answered[1] < maxAttempts

\* C20: attempt exhaustion takes precedence over the time budget. An
\* invocation that wakes from the sleep after a pending result with the
\* attempt counter at maxAttempts ends with ExhaustedPending whatever time has
\* elapsed, and an invocation ends with Timeout only when attempt <
\* maxAttempts at the top of that iteration.
C20_ExhaustionBeforeTimeout ==
    [][\A i \in Invocations :
         (pc[i] # "done" /\ pc'[i] = "done") =>
            /\ outcome'[i] = "Timeout" => attempt' < maxAttempts
            /\ (/\ pc[i] = "sleep106"
                /\ lastResult[i] = "pending"
                /\ attempt >= maxAttempts) => outcome'[i] = "ExhaustedPending"]_vars

\* The first invocation ended with ExhaustedPending after a pending result
\* although its last sleep ended past the time budget.
C20_Witness ==
    /\ outcome[1] = "ExhaustedPending"
    /\ lastResult[1] = "pending"
    /\ attempt >= maxAttempts
    /\ sleepMs[1] > 0
    /\ settledAt[1] + sleepMs[1] - startTime > maxDurationMs

\* An invocation ended with Timeout while attempts were left.
C20_WitnessTimeout ==
    /\ outcome[1] = "Timeout"
    /\ pc[2] = "idle"
    /\ attempt < maxAttempts

====
